---- MODULE Spec2Model ----
(***************************************************************************)
(* The flexbox-like layout engine of talkie (src/talkie/layout.py): the    *)
(* Layout facade owning a LayoutNode tree, its operations layout(),        *)
(* set_size() and find(), and the recursive resolver behind layout().      *)
(*                                                                         *)
(* Python strings are sequences of one-character strings, so that parsing  *)
(* (int, float, split) and formatting (str) are computed.  An Optional     *)
(* value is <<>> for None and <<v>> for a value v.  A node carries its     *)
(* object identity in the field id (its path from the root).  A raised     *)
(* ValueError is the flag raised of the rectangle accumulator.             *)
(*                                                                         *)
(* State: root is the tree the Layout owns; call is the last call made;    *)
(* rectangles, emitted and raised are the outcome of the last layout()     *)
(* (the list returned, the identities of the nodes it has rectangles for,  *)
(* whether it raised); viewport holds its arguments; modified says that    *)
(* the tree changed since; repeated says that the last call was a layout() *)
(* repeating the one before it on an unmodified tree; found is what the    *)
(* last find() returned; budget counts the calls still to be made.         *)
(***************************************************************************)
EXTENDS Integers, Sequences, FiniteSets, TLC

VARIABLES root, call, rectangles, emitted, raised, viewport, modified, repeated,
          found, budget

vars == <<root, call, rectangles, emitted, raised, viewport, modified, repeated,
          found, budget>>

RECURSIVE int_of_str(_)
RECURSIVE str_of_int(_)
RECURSIVE SumSeq(_)
RECURSIVE MaxSeq(_)
RECURSIVE _parse_element_to_node(_)
RECURSIVE _layout_node_recursive(_, _, _, _, _, _)
RECURSIVE _layout_children_horizontal(_, _, _, _, _, _)
RECURSIVE _layout_children_vertical(_, _, _, _, _, _)
RECURSIVE horizontal_position_children(_, _, _, _, _, _, _, _)
RECURSIVE vertical_position_children(_, _, _, _, _, _, _, _)
RECURSIVE _requires_minimum_height(_)
RECURSIVE _calculate_min_height(_)
RECURSIVE _calculate_min_height_raises(_)
RECURSIVE find_node_by_name(_, _)
RECURSIVE replace_size(_, _, _)

(***************************************************************************)
(* Bounds of the model.                                                    *)
(***************************************************************************)
\* operations performed on one Layout object under Spec
MaxCalls == 3
\* children of a nested container in the trees a Layout is built from
MaxLeaves == 2
\* the viewport passed to layout() when one is passed
ViewWidth == 50
ViewHeight == 30
\* a pixel size passed to set_size()
SetPixels == 25

(***************************************************************************)
(* Program constants.                                                      *)
(***************************************************************************)
DefaultRootWidth == 800
DefaultRootHeight == 600
MinHeightReference == 1000

(***************************************************************************)
(* Python values.                                                          *)
(***************************************************************************)
None == <<>>

Some(v) == <<v>>

DigitChars == <<"0", "1", "2", "3", "4", "5", "6", "7", "8", "9">>

IsDigit(c) == \E d \in 1..10 : DigitChars[d] = c

DigitValue(c) == (CHOOSE d \in 1..10 : DigitChars[d] = c) - 1

\* int(s) and float(s) raise ValueError on the empty string and on any
\* character that is no digit (the strings of this model hold digits,
\* letters, "%" and "x" only: no sign, point, exponent or blank)
int_raises(s) == s = <<>> \/ \E i \in 1..Len(s) : ~IsDigit(s[i])

int_of_str(s) ==
    IF s = <<>> THEN 0
    ELSE int_of_str(SubSeq(s, 1, Len(s) - 1)) * 10 + DigitValue(s[Len(s)])

float_raises(s) == int_raises(s)

float_of_str(s) == int_of_str(s)

\* str(n) of a non-negative int
str_of_int(n) ==
    IF n < 10 THEN <<DigitChars[n + 1]>>
    ELSE str_of_int(n \div 10) \o <<DigitChars[(n % 10) + 1]>>

\* int(x) of a float: truncation toward zero of numerator / denominator
int_of_quotient(numerator, denominator) ==
    IF numerator >= 0 THEN numerator \div denominator
    ELSE -((-numerator) \div denominator)

\* Python truthiness of an Optional[int]: None and 0 are false
truthy(opt) == opt # None /\ opt[1] # 0

SumSeq(s) == IF s = <<>> THEN 0 ELSE s[1] + SumSeq(Tail(s))

MaxSeq(s) ==
    IF s = <<>> THEN 0
    ELSE LET m == MaxSeq(Tail(s)) IN IF s[1] > m THEN s[1] ELSE m

\* element.get(key, default)
attrib_get(attrib, key, default) ==
    IF key \in DOMAIN attrib THEN attrib[key] ELSE default

(***************************************************************************)
(* Parsing of the size attribute and of one axis of it.                    *)
(***************************************************************************)
_parse_size_spec(size_str) ==
    IF size_str = <<>> THEN <<None, None>>
    ELSE IF ~(\E i \in 1..Len(size_str) : size_str[i] = "x") THEN <<None, None>>
    ELSE LET sep == CHOOSE i \in 1..Len(size_str) :
                        /\ size_str[i] = "x"
                        /\ \A j \in 1..(i - 1) : size_str[j] # "x"
             part0 == SubSeq(size_str, 1, sep - 1)
             part1 == SubSeq(size_str, sep + 1, Len(size_str))
         IN  << IF part0 # <<>> THEN Some(part0) ELSE None,
                IF part1 # <<>> THEN Some(part1) ELSE None >>

\* "not spec": None or the empty string
spec_is_empty(spec) == spec = None \/ spec[1] = <<>>

spec_is_percent(spec) == spec[1][Len(spec[1])] = "%"

percent_prefix(spec) == SubSeq(spec[1], 1, Len(spec[1]) - 1)

\* whether _parse_dimension(spec, .) raises ValueError
_parse_dimension_raises(spec) ==
    /\ ~spec_is_empty(spec)
    /\ IF spec_is_percent(spec) THEN float_raises(percent_prefix(spec))
       ELSE int_raises(spec[1])

\* the Optional[int] it returns when it does not raise
_parse_dimension(spec, container_size) ==
    IF spec_is_empty(spec) THEN None
    ELSE IF spec_is_percent(spec)
         THEN Some(int_of_quotient(container_size * float_of_str(percent_prefix(spec)), 100))
         ELSE Some(int_of_str(spec[1]))

(***************************************************************************)
(* The tree built from the element tree.                                   *)
(***************************************************************************)
_parse_element_to_node(element) ==
    LET size_str == attrib_get(element.attrib, "size", <<>>)
        spec == _parse_size_spec(size_str)
    IN  [ id |-> element.id,
          name |-> element.tag,
          size |-> spec,
          layout |-> attrib_get(element.attrib, "layout", "horiz"),
          border |-> int_of_str(attrib_get(element.attrib, "border", <<"0">>)),
          gap |-> int_of_str(attrib_get(element.attrib, "gap", <<"0">>)),
          children |-> [i \in 1..Len(element.children) |->
                            _parse_element_to_node(element.children[i])],
          attributes |-> element.attrib ]

parse_xml_to_tree(xml) == _parse_element_to_node(xml)

(***************************************************************************)
(* The minimum-size estimator.                                             *)
(***************************************************************************)
\* the test that lets only a Vertical node require a minimum
_requires_minimum_height_vertical_only(node) ==
    /\ node.children # <<>>
    /\ node.layout = "vert"
    /\ ~(\E i \in 1..Len(node.children) :
             /\ node.children[i].size[2] = None
             /\ ~_requires_minimum_height(node.children[i]))

\* the test that looks at the height specs of the children only, not at
\* whether a child without height spec requires a minimum itself
_requires_minimum_height_by_specs(node) ==
    /\ node.children # <<>>
    /\ \A i \in 1..Len(node.children) : node.children[i].size[2] # None

\* the test in which a Horizontal node is flexible only when every one of
\* its children is
_requires_minimum_height_unless_all_flexible(node) ==
    IF node.children = <<>> THEN FALSE
    ELSE IF node.layout = "horiz"
         THEN \E i \in 1..Len(node.children) :
                  ~(/\ node.children[i].size[2] = None
                    /\ ~_requires_minimum_height(node.children[i]))
         ELSE ~(\E i \in 1..Len(node.children) :
                    /\ node.children[i].size[2] = None
                    /\ ~_requires_minimum_height(node.children[i]))

_requires_minimum_height(node) ==
    IF node.children = <<>> THEN FALSE
    ELSE IF node.layout = "horiz"
         THEN ~(\E i \in 1..Len(node.children) :
                    /\ node.children[i].size[2] = None
                    /\ ~_requires_minimum_height(node.children[i]))
         ELSE LET has_flex_child ==
                      \E i \in 1..Len(node.children) :
                          /\ node.children[i].size[2] = None
                          /\ ~_requires_minimum_height(node.children[i])
              IN  ~has_flex_child

\* the contribution that counts a child without height spec for nothing,
\* whatever it holds
min_height_of_child_by_spec_only(child) ==
    LET child_height == _parse_dimension(child.size[2], MinHeightReference)
    IN  IF child_height # None THEN child_height[1] ELSE 0

\* the height one child contributes to its parent's minimum height
min_height_of_child(child) ==
    LET child_height == _parse_dimension(child.size[2], MinHeightReference)
    IN  IF child_height # None THEN child_height[1]
        ELSE _calculate_min_height(child)

\* the estimate that counts a gap for every child, the last one too
_calculate_min_height_gap_per_child(node) ==
    IF node.children = <<>> THEN node.border * 2
    ELSE LET heights == [i \in 1..Len(node.children) |->
                             min_height_of_child(node.children[i])]
         IN  IF node.layout = "vert"
             THEN SumSeq(heights) + node.gap * Len(node.children) + node.border * 2
             ELSE MaxSeq(heights) + node.border * 2

\* the estimate that takes a node without children for 0, border or not
_calculate_min_height_leaf_zero(node) ==
    IF node.children = <<>> THEN 0
    ELSE LET heights == [i \in 1..Len(node.children) |->
                             min_height_of_child(node.children[i])]
         IN  IF node.layout = "vert"
             THEN SumSeq(heights)
                  + (IF Len(node.children) > 1
                     THEN node.gap * (Len(node.children) - 1) ELSE 0)
                  + node.border * 2
             ELSE MaxSeq(heights) + node.border * 2

\* the estimate with the node's own border forgotten
_calculate_min_height_without_border(node) ==
    IF node.children = <<>> THEN node.border * 2
    ELSE LET heights == [i \in 1..Len(node.children) |->
                             min_height_of_child(node.children[i])]
         IN  IF node.layout = "vert"
             THEN SumSeq(heights)
                  + (IF Len(node.children) > 1
                     THEN node.gap * (Len(node.children) - 1) ELSE 0)
             ELSE MaxSeq(heights)

_calculate_min_height(node) ==
    IF node.children = <<>> THEN node.border * 2
    ELSE LET heights == [i \in 1..Len(node.children) |->
                             min_height_of_child(node.children[i])]
         IN  IF node.layout = "vert"
             THEN SumSeq(heights)
                  + (IF Len(node.children) > 1
                     THEN node.gap * (Len(node.children) - 1) ELSE 0)
                  + node.border * 2
             ELSE MaxSeq(heights) + node.border * 2

\* whether _calculate_min_height(node) raises ValueError
_calculate_min_height_raises(node) ==
    \E i \in 1..Len(node.children) :
        \/ _parse_dimension_raises(node.children[i].size[2])
        \/ /\ spec_is_empty(node.children[i].size[2])
           /\ _calculate_min_height_raises(node.children[i])

(***************************************************************************)
(* The rectangle resolver.  The accumulator is the list rectangles of the  *)
(* code, with the identities of the nodes appended and the raised flag.    *)
(***************************************************************************)
Rectangle(name, x, y, width, height) ==
    [name |-> name, x |-> x, y |-> y, width |-> width, height |-> height]

\* a list kept from the call before instead of a fresh one
StaleRectangles == [raised |-> FALSE, rects |-> rectangles, ids |-> emitted]

EmptyRectangles == [raised |-> FALSE, rects |-> <<>>, ids |-> <<>>]

Raise(acc) == [acc EXCEPT !.raised = TRUE]

total_gap(node) ==
    IF Len(node.children) > 1 THEN node.gap * (Len(node.children) - 1) ELSE 0

\* the test of the content area that lets an area of zero pixels pass
content_exhausted_below_zero(content_width, content_height) ==
    content_width < 0 \/ content_height < 0

\* the test of the content area with the height forgotten
content_exhausted_width_only(content_width, content_height) ==
    content_width <= 0

\* the content area of a node is too small to place children in
content_exhausted(content_width, content_height) ==
    content_width <= 0 \/ content_height <= 0

\* the horizontal share clamped the way the vertical one is
horizontal_flex_width_clamped(remaining_width, flex_count) ==
    IF flex_count > 0 /\ remaining_width > 0
    THEN remaining_width \div flex_count ELSE 0

horizontal_flex_width(remaining_width, flex_count) ==
    IF flex_count > 0 THEN remaining_width \div flex_count ELSE 0

\* the vertical share rounded up, so that no pixel of the remainder is left
vertical_flex_extra_rounded_up(remaining_height, flex_count) ==
    IF flex_count > 0 /\ remaining_height > 0
    THEN (remaining_height + flex_count - 1) \div flex_count ELSE 0

\* the vertical share without the clamp, as the horizontal one is
vertical_flex_extra_unclamped(remaining_height, flex_count) ==
    IF flex_count > 0 THEN remaining_height \div flex_count ELSE 0

vertical_flex_extra(remaining_height, flex_count) ==
    IF flex_count > 0 /\ remaining_height > 0
    THEN remaining_height \div flex_count ELSE 0

\* "_parse_dimension(spec, size) or size" of the cross axis
cross_axis_size(spec, content_size) ==
    LET parsed == _parse_dimension(spec, content_size)
    IN  IF truthy(parsed) THEN parsed[1] ELSE content_size

\* the entry of child_heights for one child of a vertical container
vertical_child_height(child, content_height) ==
    LET height == _parse_dimension(child.size[2], content_height)
    IN  IF height = None
        THEN LET min_height == _calculate_min_height(child)
             IN  IF min_height > 0 /\ _requires_minimum_height(child)
                 THEN Some(min_height)
                 ELSE None
        ELSE height

\* the node's rectangle appended after those of its children
_layout_node_recursive_children_first(node, x, y, width, height, rectangles_in) ==
    LET content_x == x + node.border
        content_y == y + node.border
        content_width == width - 2 * node.border
        content_height == height - 2 * node.border
        placed == IF node.children = <<>> THEN rectangles_in
                  ELSE IF content_exhausted(content_width, content_height)
                       THEN rectangles_in
                  ELSE IF node.layout = "vert"
                       THEN _layout_children_vertical(
                                node, content_x, content_y, content_width,
                                content_height, rectangles_in)
                       ELSE _layout_children_horizontal(
                                node, content_x, content_y, content_width,
                                content_height, rectangles_in)
    IN  [placed EXCEPT
            !.rects = Append(@, Rectangle(node.name, x, y, width, height)),
            !.ids = Append(@, node.id)]

_layout_node_recursive(node, x, y, width, height, rectangles_in) ==
    LET appended == [rectangles_in EXCEPT
                        !.rects = Append(@, Rectangle(node.name, x, y, width, height)),
                        !.ids = Append(@, node.id)]
        content_x == x + node.border
        content_y == y + node.border
        content_width == width - 2 * node.border
        content_height == height - 2 * node.border
    IN  IF node.children = <<>> THEN appended
        ELSE IF content_exhausted(content_width, content_height) THEN appended
        ELSE IF node.layout = "vert"
             THEN _layout_children_vertical(
                      node, content_x, content_y, content_width, content_height, appended)
             ELSE _layout_children_horizontal(
                      node, content_x, content_y, content_width, content_height, appended)

\* the loop with the gap left out of the advance of current_x
horizontal_position_children_without_gap(node, i, current_x, content_y, content_height, child_widths, flex_width, acc) ==
    IF i > Len(node.children) THEN acc
    ELSE IF acc.raised THEN acc
    ELSE IF _parse_dimension_raises(node.children[i].size[2]) THEN Raise(acc)
    ELSE LET child == node.children[i]
             child_width == IF child_widths[i] # None THEN child_widths[i][1]
                            ELSE flex_width
             child_height == cross_axis_size(child.size[2], content_height)
         IN  horizontal_position_children(
                 node, i + 1, current_x + child_width,
                 content_y, content_height, child_widths, flex_width,
                 _layout_node_recursive(
                     child, current_x, content_y, child_width, child_height, acc))

\* the loop "Position children" of _layout_children_horizontal, from child i
\* on; an exception raised for an earlier child ends it
horizontal_position_children(node, i, current_x, content_y, content_height, child_widths, flex_width, acc) ==
    IF i > Len(node.children) THEN acc
    ELSE IF acc.raised THEN acc
    ELSE IF _parse_dimension_raises(node.children[i].size[2]) THEN Raise(acc)
    ELSE LET child == node.children[i]
             child_width == IF child_widths[i] # None THEN child_widths[i][1]
                            ELSE flex_width
             child_height == cross_axis_size(child.size[2], content_height)
         IN  horizontal_position_children(
                 node, i + 1,
                 current_x + child_width
                     + (IF i < Len(node.children) THEN node.gap ELSE 0),
                 content_y, content_height, child_widths, flex_width,
                 _layout_node_recursive(
                     child, current_x, content_y, child_width, child_height, acc))

\* a width for a child without width spec whose children all have one: the
\* sum (horizontal child) or the largest (vertical child) of their widths
minimum_width(child) ==
    LET widths == [i \in 1..Len(child.children) |->
                       _parse_dimension(child.children[i].size[1], MinHeightReference)[1]]
    IN  IF child.layout = "horiz"
        THEN SumSeq(widths) + total_gap(child) + child.border * 2
        ELSE MaxSeq(widths) + child.border * 2

\* the horizontal distribution with the minimum rule of the vertical one:
\* a child without width spec whose children all have one gets
\* minimum_width and is not counted among the flexible children
_layout_children_horizontal_with_minimum(node, content_x, content_y, content_width, content_height, acc) ==
    LET children == node.children
        n == Len(children)
    IN  IF children = <<>> THEN acc
        ELSE IF \E i \in 1..n :
                    \/ _parse_dimension_raises(children[i].size[1])
                    \/ \E j \in 1..Len(children[i].children) :
                           _parse_dimension_raises(children[i].children[j].size[1])
        THEN Raise(acc)
        ELSE LET child_widths == [i \in 1..n |->
                     IF /\ children[i].size[1] = None
                        /\ children[i].children # <<>>
                        /\ \A j \in 1..Len(children[i].children) :
                               children[i].children[j].size[1] # None
                     THEN Some(minimum_width(children[i]))
                     ELSE _parse_dimension(children[i].size[1], content_width)]
                 fixed_width_total ==
                     SumSeq([i \in 1..n |-> IF child_widths[i] = None THEN 0
                                            ELSE child_widths[i][1]])
                 flex_count == Cardinality({i \in 1..n : child_widths[i] = None})
                 remaining_width == content_width - fixed_width_total - total_gap(node)
                 flex_width == horizontal_flex_width(remaining_width, flex_count)
             IN  horizontal_position_children(
                     node, 1, content_x, content_y, content_height,
                     child_widths, flex_width, acc)

_layout_children_horizontal(node, content_x, content_y, content_width, content_height, acc) ==
    LET children == node.children
        n == Len(children)
    IN  IF children = <<>> THEN acc
        ELSE IF \E i \in 1..n : _parse_dimension_raises(children[i].size[1])
        THEN Raise(acc)
        ELSE LET child_widths == [i \in 1..n |->
                                      _parse_dimension(children[i].size[1], content_width)]
                 fixed_width_total ==
                     SumSeq([i \in 1..n |-> IF child_widths[i] = None THEN 0
                                            ELSE child_widths[i][1]])
                 flex_count == Cardinality({i \in 1..n : child_widths[i] = None})
                 remaining_width == content_width - fixed_width_total - total_gap(node)
                 flex_width == horizontal_flex_width(remaining_width, flex_count)
             IN  horizontal_position_children(
                     node, 1, content_x, content_y, content_height,
                     child_widths, flex_width, acc)

\* the loop "Position children" of _layout_children_vertical, from child i
\* on; an exception raised for an earlier child ends it
vertical_position_children(node, i, content_x, current_y, content_width, child_heights, flex_extra, acc) ==
    IF i > Len(node.children) THEN acc
    ELSE IF acc.raised THEN acc
    ELSE IF _parse_dimension_raises(node.children[i].size[1]) THEN Raise(acc)
    ELSE LET child == node.children[i]
             child_width == cross_axis_size(child.size[1], content_width)
             child_height == IF child_heights[i] = None THEN flex_extra
                             ELSE child_heights[i][1]
         IN  vertical_position_children(
                 node, i + 1, content_x,
                 current_y + child_height
                     + (IF i < Len(node.children) THEN node.gap ELSE 0),
                 content_width, child_heights, flex_extra,
                 _layout_node_recursive(
                     child, content_x, current_y, child_width, child_height, acc))

_layout_children_vertical(node, content_x, content_y, content_width, content_height, acc) ==
    LET children == node.children
        n == Len(children)
    IN  IF children = <<>> THEN acc
        ELSE IF \E i \in 1..n :
                    \/ _parse_dimension_raises(children[i].size[2])
                    \/ /\ spec_is_empty(children[i].size[2])
                       /\ _calculate_min_height_raises(children[i])
        THEN Raise(acc)
        ELSE LET child_heights == [i \in 1..n |->
                                       vertical_child_height(children[i], content_height)]
                 fixed_height_total ==
                     SumSeq([i \in 1..n |-> IF child_heights[i] = None THEN 0
                                            ELSE child_heights[i][1]])
                 flex_count == Cardinality({i \in 1..n : child_heights[i] = None})
                 remaining_height == content_height - fixed_height_total - total_gap(node)
                 flex_extra == vertical_flex_extra(remaining_height, flex_count)
             IN  vertical_position_children(
                     node, 1, content_x, content_y, content_width,
                     child_heights, flex_extra, acc)

layout_tree_to_rectangles(tree, container_size) ==
    _layout_node_recursive(tree, 0, 0, container_size[1], container_size[2],
                           EmptyRectangles)

(***************************************************************************)
(* Lookup and mutation.                                                    *)
(***************************************************************************)
\* the search that looks at all the children of a node before it descends
\* into the first of them
find_node_by_name_children_first(tree, name) ==
    IF tree.name = name THEN Some(tree.id)
    ELSE LET named == {i \in 1..Len(tree.children) : tree.children[i].name = name}
             hits == {i \in 1..Len(tree.children) :
                          find_node_by_name(tree.children[i], name) # None}
         IN  IF named # {}
             THEN Some(tree.children[CHOOSE i \in named : \A j \in named : i <= j].id)
             ELSE IF hits = {} THEN None
             ELSE find_node_by_name(
                      tree.children[CHOOSE i \in hits : \A j \in hits : i <= j], name)

\* the identity of the first node named name in pre-order, or None
find_node_by_name(tree, name) ==
    IF tree.name = name THEN Some(tree.id)
    ELSE LET hits == {i \in 1..Len(tree.children) :
                          find_node_by_name(tree.children[i], name) # None}
         IN  IF hits = {} THEN None
             ELSE find_node_by_name(
                      tree.children[CHOOSE i \in hits : \A j \in hits : i <= j], name)

\* the tree after "node.size = size" on the node of identity id
replace_size(tree, id, size) ==
    IF tree.id = id THEN [tree EXCEPT !.size = size]
    ELSE [tree EXCEPT !.children =
              [i \in 1..Len(tree.children) |-> replace_size(tree.children[i], id, size)]]

\* the tree after "node.size = size" on every node named name
RECURSIVE replace_size_of_all(_, _, _)
replace_size_of_all(tree, name, size) ==
    [tree EXCEPT
        !.size = IF tree.name = name THEN size ELSE @,
        !.children = [i \in 1..Len(tree.children) |->
                          replace_size_of_all(tree.children[i], name, size)]]

\* set_size that does not stop at the first node of the name
set_size_of_all(tree, name, width, height) ==
    LET width_spec == IF width # None THEN Some(str_of_int(width[1])) ELSE None
        height_spec == IF height # None THEN Some(str_of_int(height[1])) ELSE None
    IN  replace_size_of_all(tree, name, <<width_spec, height_spec>>)

\* the tree after Layout.set_size(name, width, height)
set_size(tree, name, width, height) ==
    LET node == find_node_by_name(tree, name)
    IN  IF node # None
        THEN LET width_spec == IF width # None THEN Some(str_of_int(width[1])) ELSE None
                 height_spec == IF height # None THEN Some(str_of_int(height[1])) ELSE None
             IN  replace_size(tree, node[1], <<width_spec, height_spec>>)
        ELSE tree

\* the container size Layout.layout(width, height) gives the root
root_size(tree, given, axis, fallback) ==
    IF truthy(given) THEN given[1]
    ELSE LET own == _parse_dimension(tree.size[axis], 0)
         IN  IF truthy(own) THEN own[1] ELSE fallback

\* the accumulator Layout.layout(width, height) ends with
layout(tree, width, height) ==
    IF \/ ~truthy(width) /\ _parse_dimension_raises(tree.size[1])
       \/ ~truthy(height) /\ _parse_dimension_raises(tree.size[2])
    THEN Raise(EmptyRectangles)
    ELSE layout_tree_to_rectangles(
             tree, << root_size(tree, width, 1, DefaultRootWidth),
                      root_size(tree, height, 2, DefaultRootHeight) >>)

(***************************************************************************)
(* The element trees a Layout is built from.  An element is what the XML   *)
(* parser hands to _parse_element_to_node: a tag, the attributes that are  *)
(* written in the markup (as strings) and the child elements.              *)
(***************************************************************************)
Element(id, tag, attrib, children) ==
    [id |-> id, tag |-> tag, attrib |-> attrib, children |-> children]

\* the attributes of an element: only those that differ from the defaults
\* are written
Attrib(size, direction, border, gap) ==
    LET keys == (IF size # <<>> THEN {"size"} ELSE {})
                \cup (IF direction # "horiz" THEN {"layout"} ELSE {})
                \cup (IF border # <<"0">> THEN {"border"} ELSE {})
                \cup (IF gap # <<"0">> THEN {"gap"} ELSE {})
    IN  [k \in keys |-> CASE k = "size" -> size
                          [] k = "layout" -> direction
                          [] k = "border" -> border
                          [] k = "gap" -> gap]

Tags == <<"a", "b", "c", "d", "e">>

Directions == {"horiz", "vert"}

BorderAttribs == {<<"0">>, <<"2">>}

GapAttribs == {<<"0">>, <<"3">>}

\* size attributes of leaves: "", "30x20", "50%x50%"
GoodLeafSizes ==
    { <<>>,
      <<"3", "0", "x", "2", "0">>,
      <<"5", "0", "%", "x", "5", "0", "%">> }

\* malformed size attributes: "30" (no separator), "abx" and "xa%"
BadLeafSizes ==
    { <<"3", "0">>,
      <<"a", "b", "x">>,
      <<"x", "a", "%">> }

\* size attributes of the leaf beside a nested container: "", "x20", "30x20"
SiblingSizes ==
    { <<>>,
      <<"x", "2", "0">>,
      <<"3", "0", "x", "2", "0">> }

\* size attributes of a nested container: "" and "40x"
NestedSizes == { <<>>, <<"4", "0", "x">> }

\* size attributes of the root: "" and "60x40"
RootSizes == { <<>>, <<"6", "0", "x", "4", "0">> }

Leaf(id, tag, size) == Element(id, tag, Attrib(size, "horiz", <<"0">>, <<"0">>), <<>>)

\* the child lists of a nested container, as lists of size attributes
LeafSizeLists ==
    (UNION { [1..n -> GoodLeafSizes] : n \in 1..MaxLeaves })
    \cup { <<s>> : s \in BadLeafSizes }

\* the nested containers that can stand as child i of the root
Nested(i) ==
    { Element(<<i>>, Tags[i], Attrib(size, direction, border, gap),
              [j \in 1..Len(sizes) |-> Leaf(<<i, j>>, Tags[j + 1], sizes[j])]) :
          size \in NestedSizes, direction \in Directions,
          border \in BorderAttribs, gap \in GapAttribs, sizes \in LeafSizeLists }

RootChildren ==
    { <<>> }
    \cup { <<Leaf(<<1>>, Tags[1], s)>> : s \in GoodLeafSizes \cup BadLeafSizes }
    \cup { <<m>> : m \in Nested(1) }
    \cup { <<Leaf(<<1>>, Tags[1], s), Leaf(<<2>>, Tags[2], t)>> :
               s \in SiblingSizes, t \in SiblingSizes }
    \cup { <<m, Leaf(<<2>>, Tags[2], t)>> : m \in Nested(1), t \in SiblingSizes }
    \cup { <<Leaf(<<1>>, Tags[1], s), m>> : s \in SiblingSizes, m \in Nested(2) }

Elements ==
    { Element(<<>>, "root", Attrib(size, direction, border, gap), children) :
          size \in RootSizes, direction \in Directions,
          border \in BorderAttribs, gap \in GapAttribs, children \in RootChildren }

\* the element trees of the facade specification: a nested container with
\* one or two leaves, beside a leaf of the same name as the first of them
FacadeElements ==
    { Element(<<>>, "root", Attrib(size, direction, <<"0">>, <<"3">>),
              << Element(<<1>>, "a", Attrib(<<>>, nested, <<"2">>, <<"0">>),
                         [j \in 1..Len(sizes) |-> Leaf(<<1, j>>, Tags[j + 1], sizes[j])]),
                 Leaf(<<2>>, "b", <<>>) >>) :
          size \in RootSizes, direction \in Directions, nested \in Directions,
          sizes \in { << <<"3", "0", "x", "2", "0">> >>, << <<>>, <<"x", "2", "0">> >> } }

\* the border of a root that leaves a 60x40 rectangle a content area of
\* 20x0: "0" and "20"
EdgeBorderAttribs == { <<"0">>, <<"2", "0">> }

\* a percentage size that comes to less than one pixel of a small
\* container: "1%x1%"
EdgeLeafSize == <<"1", "%", "x", "1", "%">>

\* the element trees of the edges of the arithmetic: a percentage below one
\* pixel or a malformed size, alone under the root or inside a nested
\* container, and a root whose border uses up its height
EdgeElements ==
    { Element(<<>>, "root", Attrib(size, direction, border, <<"0">>), children) :
          size \in RootSizes, direction \in Directions, border \in EdgeBorderAttribs,
          children \in
              { << Leaf(<<1>>, "a", EdgeLeafSize) >>,
                << Leaf(<<1>>, "a", <<"a", "b", "x">>) >>,
                << Element(<<1>>, "a", Attrib(<<>>, "horiz", <<"0">>, <<"0">>),
                           << Leaf(<<1, 1>>, "b", EdgeLeafSize) >>),
                   Leaf(<<2>>, "b", <<>>) >> } }

\* a leaf without size that has a border of 2 and a gap of 3
BorderedLeaf(id, tag) == Element(id, tag, Attrib(<<>>, "horiz", <<"2">>, <<"3">>), <<>>)

\* size attributes with a height of nothing: "30x0" and "30x0%"
ZeroHeightSizes ==
    { <<"3", "0", "x", "0">>,
      <<"3", "0", "x", "0", "%">> }

\* the child lists of a container that stands inside a nested container:
\* "30x20"; ""; "30x20" and "x20"; "50%x50%"
InnerLeafSizeLists ==
    { << <<"3", "0", "x", "2", "0">> >>,
      << <<>> >>,
      << <<"3", "0", "x", "2", "0">>, <<"x", "2", "0">> >>,
      << <<"5", "0", "%", "x", "5", "0", "%">> >> }

\* the first children of the root in the trees of the estimator: a leaf
\* with a border; a container whose only child has a height of nothing; a
\* container of a leaf with a border and a sized leaf; a container that
\* holds a container and a leaf
EstimatorChildren ==
    { BorderedLeaf(<<1>>, "a") }
    \cup { Element(<<1>>, "a", Attrib(<<>>, direction, <<"0">>, <<"0">>),
                   << Leaf(<<1, 1>>, "b", size) >>) :
               direction \in Directions, size \in ZeroHeightSizes }
    \cup { Element(<<1>>, "a", Attrib(<<>>, direction, <<"0">>, gap),
                   << BorderedLeaf(<<1, 1>>, "b"),
                      Leaf(<<1, 2>>, "c", <<"3", "0", "x", "2", "0">>) >>) :
               direction \in Directions, gap \in GapAttribs }
    \cup { Element(<<1>>, "a", Attrib(<<>>, direction, border, gap),
                   << Element(<<1, 1>>, "b", Attrib(<<>>, inner, inner_border, <<"3">>),
                              [j \in 1..Len(sizes) |->
                                   Leaf(<<1, 1, j>>, Tags[j + 2], sizes[j])]),
                      Leaf(<<1, 2>>, "c", size) >>) :
               direction \in Directions, border \in BorderAttribs, gap \in GapAttribs,
               inner \in Directions, inner_border \in BorderAttribs,
               sizes \in InnerLeafSizeLists,
               size \in { <<>>, <<"x", "2", "0">> } }

\* the element trees of the estimator: one of those children beside a leaf
\* without size
EstimatorElements ==
    { Element(<<>>, "root", Attrib(<<>>, direction, <<"0">>, gap),
              << child, Leaf(<<2>>, "b", <<>>) >>) :
          direction \in Directions, gap \in GapAttribs, child \in EstimatorChildren }

(***************************************************************************)
(* The arguments of the operations.                                        *)
(***************************************************************************)
\* layout(), layout(w, h), layout(0, h): each argument an Optional[int]
Viewports ==
    { <<None, None>>, <<Some(ViewWidth), Some(ViewHeight)>>, <<Some(0), Some(ViewHeight)>> }

\* the viewports of the specification of layout() alone
LayoutViewports == { <<None, None>>, <<Some(ViewWidth), Some(ViewHeight)>> }

SizeArgs == { None, Some(0), Some(SetPixels) }

NameArgs == { "root", "b", "zz" }

NoCall == [op |-> "init", name |-> "", width |-> None, height |-> None]

(***************************************************************************)
(* The state machine: one Layout object and the calls made on it.          *)
(***************************************************************************)
\* Layout.__init__(xml), with an allowance of calls
Construct(xml, calls) ==
    /\ root = parse_xml_to_tree(xml)
    /\ call = NoCall
    /\ rectangles = <<>>
    /\ emitted = <<>>
    /\ raised = FALSE
    /\ viewport = <<None, None>>
    /\ modified = TRUE
    /\ repeated = FALSE
    /\ found = None
    /\ budget = calls

Init == \E xml \in FacadeElements : Construct(xml, MaxCalls)

InitLayout == \E xml \in Elements \cup EdgeElements : Construct(xml, 1)

\* the Layout objects of the specification of the estimator
InitEstimator == \E xml \in EstimatorElements \cup EdgeElements : Construct(xml, 1)

\* a layout() that writes the size it resolved for the root back into the tree
LayoutStoringRootSize(width, height) ==
    /\ budget > 0
    /\ budget' = budget - 1
    /\ \E result \in {layout(root, width, height)} :
           /\ raised' = result.raised
           /\ rectangles' = IF result.raised THEN <<>> ELSE result.rects
           /\ emitted' = IF result.raised THEN <<>> ELSE result.ids
           /\ root' = IF result.raised THEN root
                      ELSE replace_size(root, root.id,
                               << Some(str_of_int(result.rects[1].width)),
                                  Some(str_of_int(result.rects[1].height)) >>)
    /\ call' = [op |-> "layout", name |-> "", width |-> width, height |-> height]
    /\ viewport' = <<width, height>>
    /\ modified' = FALSE
    /\ repeated' = (~modified /\ viewport = <<width, height>>)
    /\ found' = None

\* Layout.layout(width, height)
Layout(width, height) ==
    /\ budget > 0
    /\ budget' = budget - 1
    /\ \E result \in {layout(root, width, height)} :
           /\ raised' = result.raised
           /\ rectangles' = IF result.raised THEN <<>> ELSE result.rects
           /\ emitted' = IF result.raised THEN <<>> ELSE result.ids
    /\ call' = [op |-> "layout", name |-> "", width |-> width, height |-> height]
    /\ viewport' = <<width, height>>
    /\ modified' = FALSE
    /\ repeated' = (~modified /\ viewport = <<width, height>>)
    /\ found' = None
    /\ UNCHANGED root

\* Layout.set_size(name, width, height)
SetSize(name, width, height) ==
    /\ budget > 0
    /\ budget' = budget - 1
    /\ root' = set_size(root, name, width, height)
    /\ call' = [op |-> "set_size", name |-> name, width |-> width, height |-> height]
    /\ modified' = (modified \/ root' # root)
    /\ repeated' = FALSE
    /\ found' = None
    /\ UNCHANGED <<rectangles, emitted, raised, viewport>>

\* Layout.find(name)
Find(name) ==
    /\ budget > 0
    /\ budget' = budget - 1
    /\ found' = find_node_by_name(root, name)
    /\ call' = [op |-> "find", name |-> name, width |-> None, height |-> None]
    /\ repeated' = FALSE
    /\ UNCHANGED <<root, rectangles, emitted, raised, viewport, modified>>

Next ==
    \/ \E v \in Viewports : Layout(v[1], v[2])
    \/ \E name \in NameArgs, width \in SizeArgs, height \in SizeArgs :
           SetSize(name, width, height)
    \/ \E name \in NameArgs : Find(name)

NextLayout == \E v \in LayoutViewports : Layout(v[1], v[2])

Spec == Init /\ [][Next]_vars

SpecLayout == InitLayout /\ [][NextLayout]_vars

\* layout() on the trees of the estimator
SpecEstimator == InitEstimator /\ [][NextLayout]_vars

(***************************************************************************)
(* Vocabulary of the properties: the nodes of the tree by identity and     *)
(* the rectangle the last layout() returned for each.                      *)
(***************************************************************************)
RECURSIVE NodeAt(_, _)
RECURSIVE NodeIds(_)

NodeAt(tree, id) ==
    IF id = <<>> THEN tree ELSE NodeAt(tree.children[id[1]], Tail(id))

NodeIds(tree) ==
    {tree.id} \cup UNION { NodeIds(tree.children[i]) : i \in 1..Len(tree.children) }

ParentId(id) == SubSeq(id, 1, Len(id) - 1)

ChildIds(id) == { Append(id, i) : i \in 1..Len(NodeAt(root, id).children) }

\* the last call was a layout() that returned a list
Returned == call.op = "layout" /\ ~raised

\* the step is a call of layout()
LayoutStep == call'.op = "layout" /\ budget' # budget

\* the step is a call of set_size()
SetSizeStep == call'.op = "set_size" /\ budget' # budget

IsEmitted(id) == \E i \in 1..Len(emitted) : emitted[i] = id

RectOf(id) == rectangles[CHOOSE i \in 1..Len(emitted) : emitted[i] = id]

\* the content area of an emitted node, from its rectangle and its border
ContentX(id) == RectOf(id).x + NodeAt(root, id).border
ContentY(id) == RectOf(id).y + NodeAt(root, id).border
ContentWidth(id) == RectOf(id).width - 2 * NodeAt(root, id).border
ContentHeight(id) == RectOf(id).height - 2 * NodeAt(root, id).border

\* an emitted node whose children were all given rectangles
ChildrenEmitted(id) ==
    /\ IsEmitted(id)
    /\ NodeAt(root, id).children # <<>>
    /\ \A c \in ChildIds(id) : IsEmitted(c)

\* a size spec that is a pixel count
IsPixelSpec(spec) == spec # None /\ spec[1] # <<>> /\ ~int_raises(spec[1])

Maximum(a, b) == IF a > b THEN a ELSE b

(***************************************************************************)
(* C1: every rectangle layout() returns has width >= 0 and height >= 0     *)
(* (all sizes, percentages, borders and gaps of the model's trees are      *)
(* non-negative).  The code breaks it: a flexible child of a horizontal    *)
(* container whose sized children overflow it gets a negative width.       *)
(***************************************************************************)
C1_NoNegativeSize ==
    Returned =>
        \A i \in 1..Len(rectangles) :
            rectangles[i].width >= 0 /\ rectangles[i].height >= 0

(***************************************************************************)
(* C2: containment.  For every node whose border is at most half of its    *)
(* width and of its height, each child rectangle lies inside the node's    *)
(* content rectangle on both axes.  The code breaks it: sized children     *)
(* that do not fit are placed past the content edge.                       *)
(***************************************************************************)
C2_ChildInsideContent ==
    Returned =>
        \A id \in NodeIds(root) \ {<<>>} :
            IsEmitted(id) =>
                LET p == ParentId(id)
                    r == RectOf(id)
                IN  (/\ 2 * NodeAt(root, p).border <= RectOf(p).width
                     /\ 2 * NodeAt(root, p).border <= RectOf(p).height)
                    => /\ ContentX(p) <= r.x
                       /\ r.x + r.width <= ContentX(p) + ContentWidth(p)
                       /\ ContentY(p) <= r.y
                       /\ r.y + r.height <= ContentY(p) + ContentHeight(p)

(***************************************************************************)
(* C3, as claimed: the list layout() returns has exactly one rectangle     *)
(* for every node of the tree, so its length is the number of nodes.       *)
(***************************************************************************)
C3_OneRectanglePerNode ==
    Returned =>
        /\ Len(rectangles) = Cardinality(NodeIds(root))
        /\ \A id \in NodeIds(root) : IsEmitted(id)

(***************************************************************************)
(* C3, as amended: the list has exactly one rectangle, carrying the        *)
(* node's name, for the root and for every node whose parent has a         *)
(* rectangle with positive content width and height, and none for any      *)
(* other node.                                                             *)
(***************************************************************************)
C3_OneRectanglePerPlacedNode ==
    Returned =>
        /\ Len(rectangles) = Len(emitted)
        /\ \A i \in 1..Len(emitted) :
               /\ emitted[i] \in NodeIds(root)
               /\ rectangles[i].name = NodeAt(root, emitted[i]).name
        /\ \A id \in NodeIds(root) :
               Cardinality({ i \in 1..Len(emitted) : emitted[i] = id })
                   = IF \/ id = <<>>
                        \/ /\ IsEmitted(ParentId(id))
                           /\ ContentWidth(ParentId(id)) > 0
                           /\ ContentHeight(ParentId(id)) > 0
                     THEN 1 ELSE 0

\* a list was returned that lacks the children of a node without content area
C3_Witness ==
    /\ Returned
    /\ \E id \in NodeIds(root) \ {<<>>} :
           /\ ~IsEmitted(id)
           /\ IsEmitted(ParentId(id))
           /\ ContentWidth(ParentId(id)) > 0
           /\ ContentHeight(ParentId(id)) <= 0

(***************************************************************************)
(* C4: set_size(name, width, height) overwrites only the axes that are     *)
(* given: an axis given becomes that pixel value, an axis not given keeps  *)
(* the found node's spec.  The code breaks it: it assigns the pair         *)
(* (width_spec, height_spec), so an axis not given becomes unspecified.    *)
(***************************************************************************)
C4_SetSizeKeepsAbsentAxis ==
    [][ (SetSizeStep /\ find_node_by_name(root, call'.name) # None) =>
            LET id == find_node_by_name(root, call'.name)[1]
                before == NodeAt(root, id).size
                after == NodeAt(root', id).size
            IN  /\ call'.width = None => after[1] = before[1]
                /\ call'.height = None => after[2] = before[2]
                /\ call'.width # None => after[1] = Some(str_of_int(call'.width[1]))
                /\ call'.height # None => after[2] = Some(str_of_int(call'.height[1]))
      ]_vars

(***************************************************************************)
(* C5: a malformed size token never makes layout() fail: the call returns  *)
(* a rectangle list, whatever the size attributes of the tree.  The code   *)
(* breaks it: int() and float() of a non-numeric token raise ValueError.   *)
(***************************************************************************)
C5_LayoutNeverRaises == call.op = "layout" => ~raised

(***************************************************************************)
(* C6: idempotence.  A layout() with the arguments of the layout() before  *)
(* it, on a tree not modified in between, has the same outcome: the same   *)
(* list of rectangles (or the same exception).                             *)
(***************************************************************************)
C6_LayoutIdempotent ==
    [][ (LayoutStep /\ ~modified /\ viewport' = viewport) =>
            (rectangles' = rectangles /\ raised' = raised) ]_vars

\* a layout() repeated the one before it and returned rectangles
C6_Witness == repeated /\ Returned /\ Len(rectangles) >= 3

(***************************************************************************)
(* C7: layout() never mutates the tree, and set_size() is the only         *)
(* operation that changes it.                                              *)
(***************************************************************************)
C7_LayoutLeavesTree ==
    [][ /\ LayoutStep => root' = root
        /\ root' # root => SetSizeStep ]_vars

\* a layout() returned rectangles after an earlier call, and the tree is
\* the one it was given
C7_Witness == Returned /\ ~modified /\ Len(rectangles) >= 3 /\ budget < MaxCalls - 1

(***************************************************************************)
(* C8: round trip.  After set_size(name, w, h) with both values given,     *)
(* the next layout() returns for the found node a rectangle of width w     *)
(* and height h.  The code breaks it: a 0 on the cross axis is replaced    *)
(* by the container's content size (and the root takes the viewport).      *)
(***************************************************************************)
C8_SetSizeThenLayoutExact ==
    [][ ( /\ call.op = "set_size"
          /\ call.width # None
          /\ call.height # None
          /\ find_node_by_name(root, call.name) # None
          /\ LayoutStep ) =>
            /\ ~raised'
            /\ \E i \in 1..Len(emitted') :
                   /\ emitted'[i] = find_node_by_name(root, call.name)[1]
                   /\ rectangles'[i].width = call.width[1]
                   /\ rectangles'[i].height = call.height[1]
      ]_vars

(***************************************************************************)
(* C9: minimum-content propagation.  The case: a Vertical node v whose two *)
(* children were placed, one of them (t) a Horizontal node of unspecified  *)
(* height whose children all have pixel heights, the tallest h > 0, the    *)
(* other (f) a leaf without size.                                          *)
(***************************************************************************)
C9_Case(v, t, f) ==
    /\ ChildrenEmitted(v)
    /\ NodeAt(root, v).layout = "vert"
    /\ ChildIds(v) = {t, f}
    /\ t # f
    /\ NodeAt(root, t).layout = "horiz"
    /\ NodeAt(root, t).size[2] = None
    /\ NodeAt(root, t).children # <<>>
    /\ \A c \in ChildIds(t) : IsPixelSpec(NodeAt(root, c).size[2])
    /\ \E c \in ChildIds(t) : int_of_str(NodeAt(root, c).size[2][1]) > 0
    /\ NodeAt(root, f).children = <<>>
    /\ NodeAt(root, f).size = <<None, None>>

\* h + 2b: the tallest child of t and the border of t twice
C9_ToolbarHeight(t) ==
    LET T == NodeAt(root, t)
    IN  MaxSeq([i \in 1..Len(T.children) |-> int_of_str(T.children[i].size[2][1])])
        + 2 * T.border

C10_ResolvedWidths(id) ==
    LET node == NodeAt(root, id)
    IN  [i \in 1..Len(node.children) |->
             IF node.children[i].size[1] = None THEN 0
             ELSE _parse_dimension(node.children[i].size[1], ContentWidth(id))[1]]

C10_FlexCount(id) ==
    Cardinality({ c \in ChildIds(id) : NodeAt(root, c).size[1] = None })

C10_HorizontalDistribution ==
    Returned =>
        \A id \in NodeIds(root) :
            ( /\ ChildrenEmitted(id)
              /\ NodeAt(root, id).layout = "horiz"
              /\ C10_FlexCount(id) >= 1 ) =>
                LET node == NodeAt(root, id)
                    n == Len(node.children)
                    share == (ContentWidth(id) - node.gap * (n - 1)
                                  - SumSeq(C10_ResolvedWidths(id)))
                             \div C10_FlexCount(id)
                IN  \A i \in 1..n :
                        RectOf(Append(id, i)).width =
                            IF node.children[i].size[1] = None THEN share
                            ELSE C10_ResolvedWidths(id)[i]

\* a horizontal container with a gap, a sized child and a flexible child
\* that gets a positive share
C10_Witness ==
    /\ Returned
    /\ \E id \in NodeIds(root) :
           /\ ChildrenEmitted(id)
           /\ NodeAt(root, id).layout = "horiz"
           /\ NodeAt(root, id).gap > 0
           /\ \E c, d \in ChildIds(id) :
                  /\ NodeAt(root, c).size[1] = None
                  /\ RectOf(c).width > 0
                  /\ NodeAt(root, d).size[1] # None

(***************************************************************************)
(* C11: a placed child whose size is "p%xq%" gets width floor(W*p/100)     *)
(* and height floor(H*q/100) of its container's content area W x H, in     *)
(* both directions.  The code breaks it on the cross axis: a percentage    *)
(* that comes to 0 is taken for "no size" and the child gets the whole     *)
(* content size.                                                           *)
(***************************************************************************)
\* a size spec that is a percentage
IsPercentSpec(spec) ==
    /\ spec # None
    /\ spec[1] # <<>>
    /\ spec_is_percent(spec)
    /\ ~int_raises(percent_prefix(spec))

PercentOf(spec) == int_of_str(percent_prefix(spec))

\* the emitted children whose size gives a percentage on both axes
PercentChildren ==
    { id \in NodeIds(root) \ {<<>>} :
          /\ IsEmitted(id)
          /\ IsPercentSpec(NodeAt(root, id).size[1])
          /\ IsPercentSpec(NodeAt(root, id).size[2]) }

C11_PercentageResolution ==
    Returned =>
        \A id \in PercentChildren :
            /\ RectOf(id).width =
                   (ContentWidth(ParentId(id)) * PercentOf(NodeAt(root, id).size[1])) \div 100
            /\ RectOf(id).height =
                   (ContentHeight(ParentId(id)) * PercentOf(NodeAt(root, id).size[2])) \div 100

(***************************************************************************)
(* C12: a node with children whose content width or content height is     *)
(* <= 0 keeps its own rectangle, none of its descendants gets one and      *)
(* nothing is raised; a node has a rectangle if and only if every proper   *)
(* ancestor has one with positive content width and height.                *)
(***************************************************************************)
\* the proper ancestors of a node, the root included
Ancestors(id) == { SubSeq(id, 1, k) : k \in 0..(Len(id) - 1) }

\* the node has a rectangle whose content area can hold children
HasContentArea(id) ==
    /\ IsEmitted(id)
    /\ ContentWidth(id) > 0
    /\ ContentHeight(id) > 0

\* the root rectangle of the last layout() leaves no content area
RootExhausted ==
    LET width == root_size(root, viewport[1], 1, DefaultRootWidth)
        height == root_size(root, viewport[2], 2, DefaultRootHeight)
    IN  \/ width - 2 * root.border <= 0
        \/ height - 2 * root.border <= 0

C12_BorderExhaustion ==
    /\ Returned =>
           /\ \A id \in NodeIds(root) :
                  IsEmitted(id) <=> \A a \in Ancestors(id) : HasContentArea(a)
           /\ \A id \in NodeIds(root) :
                  (IsEmitted(id) /\ ~HasContentArea(id)) =>
                      \A d \in NodeIds(root) : id \in Ancestors(d) => ~IsEmitted(d)
    /\ (call.op = "layout" /\ root.children # <<>> /\ RootExhausted) =>
           /\ ~raised
           /\ emitted = << <<>> >>
           /\ rectangles[1].name = root.name

\* a list was returned that holds a container without content area and
\* neither its child nor its grandchild
C12_Witness ==
    /\ Returned
    /\ \E id \in NodeIds(root) :
           /\ IsEmitted(id)
           /\ ~HasContentArea(id)
           /\ \E d \in NodeIds(root) :
                  /\ Len(d) = Len(id) + 2
                  /\ id \in Ancestors(d)
                  /\ ~IsEmitted(d)
                  /\ ~IsEmitted(ParentId(d))

(***************************************************************************)
(* C13: along the principal axis of a container the origins of its         *)
(* children do not decrease in declaration order and each child starts at  *)
(* or after the end of the child before it (all sizes, borders and gaps    *)
(* of the model's trees are non-negative).  The code breaks the first      *)
(* half: a flexible child of negative width pulls the next origin back.    *)
(***************************************************************************)
\* the origin and the size of an emitted node along the axis of its parent
PrincipalOrigin(id) ==
    IF NodeAt(root, ParentId(id)).layout = "vert" THEN RectOf(id).y ELSE RectOf(id).x

PrincipalSize(id) ==
    IF NodeAt(root, ParentId(id)).layout = "vert" THEN RectOf(id).height
    ELSE RectOf(id).width

C13_SiblingOrder ==
    Returned =>
        \A p \in NodeIds(root) :
            ChildrenEmitted(p) =>
                \A i \in 1..(Len(NodeAt(root, p).children) - 1) :
                    LET this == Append(p, i)
                        next == Append(p, i + 1)
                    IN  /\ PrincipalOrigin(next) >= PrincipalOrigin(this)
                        /\ PrincipalOrigin(next)
                               >= PrincipalOrigin(this) + PrincipalSize(this)

(***************************************************************************)
(* C14: the first child of a container starts at the container's content   *)
(* origin (x + border, y + border); every later child starts, along the    *)
(* principal axis, where the child before it started plus that child's     *)
(* size plus the gap; on the cross axis every child starts at the content  *)
(* origin.                                                                 *)
(***************************************************************************)
\* the origin of an emitted node across the axis of its parent
CrossOrigin(id) ==
    IF NodeAt(root, ParentId(id)).layout = "vert" THEN RectOf(id).x ELSE RectOf(id).y

\* the content origin of a container along and across its own axis
ContentPrincipalOrigin(p) ==
    IF NodeAt(root, p).layout = "vert" THEN ContentY(p) ELSE ContentX(p)

ContentCrossOrigin(p) ==
    IF NodeAt(root, p).layout = "vert" THEN ContentX(p) ELSE ContentY(p)

C14_ExactPlacement ==
    Returned =>
        \A p \in NodeIds(root) :
            ChildrenEmitted(p) =>
                /\ PrincipalOrigin(Append(p, 1)) = ContentPrincipalOrigin(p)
                /\ \A c \in ChildIds(p) : CrossOrigin(c) = ContentCrossOrigin(p)
                /\ \A i \in 1..(Len(NodeAt(root, p).children) - 1) :
                       PrincipalOrigin(Append(p, i + 1))
                           = PrincipalOrigin(Append(p, i)) + PrincipalSize(Append(p, i))
                                 + NodeAt(root, p).gap

\* a list was returned for a tree with a horizontal and a vertical
\* container of two children each, both with a border and a gap
C14_Witness ==
    /\ Returned
    /\ \E p, q \in NodeIds(root) :
           /\ NodeAt(root, p).layout = "horiz"
           /\ NodeAt(root, q).layout = "vert"
           /\ \A c \in {p, q} :
                  /\ ChildrenEmitted(c)
                  /\ Len(NodeAt(root, c).children) >= 2
                  /\ NodeAt(root, c).gap > 0
                  /\ NodeAt(root, c).border > 0

(***************************************************************************)
(* C15: find(name) returns the first node, in pre-order (a parent before   *)
(* its children, children in declared order), whose name is the query,     *)
(* and None exactly when no node has that name; of two nodes of one name   *)
(* the earlier in pre-order wins even when the later one is less deep.     *)
(***************************************************************************)
\* node a comes before node b in pre-order: a is an ancestor of b, or the
\* paths part at a child index that is smaller on the way to a
PreOrderBefore(a, b) ==
    \/ Len(a) < Len(b) /\ SubSeq(b, 1, Len(a)) = a
    \/ \E k \in 1..Len(a) :
           /\ k <= Len(b)
           /\ a[k] < b[k]
           /\ SubSeq(a, 1, k - 1) = SubSeq(b, 1, k - 1)

NodesNamed(name) == { id \in NodeIds(root) : NodeAt(root, id).name = name }

FirstNamed(name) ==
    IF NodesNamed(name) = {} THEN None
    ELSE Some(CHOOSE id \in NodesNamed(name) :
                  \A other \in NodesNamed(name) \ {id} : PreOrderBefore(id, other))

C15_FindFirstInPreOrder ==
    call.op = "find" =>
        /\ found = FirstNamed(call.name)
        /\ found = None <=> NodesNamed(call.name) = {}

\* find() returned a grandchild of the root although a child of the root,
\* later in pre-order, has the same name
C15_Witness ==
    /\ call.op = "find"
    /\ found # None
    /\ Len(found[1]) = 2
    /\ \E other \in NodesNamed(call.name) :
           /\ Len(other) = 1
           /\ PreOrderBefore(found[1], other)

(***************************************************************************)
(* C16: set_size with a name no node has leaves the whole tree as it was   *)
(* and raises nothing; with a name some nodes have it changes the size     *)
(* of the first of them in pre-order only: every other node keeps all its  *)
(* fields and the matched node keeps its name, direction, border, gap,     *)
(* children and attributes.                                                *)
(***************************************************************************)
\* the fields of a node of a tree, but for its size and what lies below it
OwnFields(tree, id) ==
    LET node == NodeAt(tree, id)
    IN  << node.name, node.layout, node.border, node.gap, node.attributes,
           Len(node.children) >>

C16_SetSizeFrame ==
    [][ SetSizeStep =>
            /\ raised' = raised
            /\ NodeIds(root') = NodeIds(root)
            /\ \A id \in NodeIds(root) : OwnFields(root', id) = OwnFields(root, id)
            /\ IF NodesNamed(call'.name) = {} THEN root' = root
               ELSE \A id \in NodeIds(root) \ {FirstNamed(call'.name)[1]} :
                        NodeAt(root', id).size = NodeAt(root, id).size
      ]_vars

\* set_size("b", SetPixels, .) has set the width of the first node named b
\* and not that of the second
C16_Witness ==
    /\ call.op = "set_size"
    /\ call.width = Some(SetPixels)
    /\ Cardinality(NodesNamed(call.name)) = 2
    /\ \E first, second \in NodesNamed(call.name) :
           /\ PreOrderBefore(first, second)
           /\ NodeAt(root, first).size[1] = Some(str_of_int(SetPixels))
           /\ NodeAt(root, second).size[1] # Some(str_of_int(SetPixels))

(***************************************************************************)
(* C17: layout(width, height) puts the root rectangle at (0, 0) and gives  *)
(* it, on each axis by itself, the size the root's own spec states when    *)
(* it has one, else the argument, else 800 wide and 600 high.  The code    *)
(* breaks it: an argument that is given wins over the root's own size.     *)
(***************************************************************************)
\* the size the claim gives the root on one axis
C17_RootExtent(axis, fallback) ==
    IF IsPixelSpec(root.size[axis]) THEN int_of_str(root.size[axis][1])
    ELSE IF viewport[axis] # None THEN viewport[axis][1]
    ELSE fallback

C17_RootOwnSizeFirst ==
    (Returned /\ \A axis \in 1..2 : root.size[axis] = None \/ IsPixelSpec(root.size[axis])) =>
        /\ emitted[1] = <<>>
        /\ rectangles[1] = Rectangle(root.name, 0, 0,
                                     C17_RootExtent(1, DefaultRootWidth),
                                     C17_RootExtent(2, DefaultRootHeight))

(***************************************************************************)
(* C18: the list layout() returns is in pre-order: the root's rectangle    *)
(* is first, the rectangle of every node comes before those of all its     *)
(* descendants, and the subtrees of siblings come in declaration order.    *)
(***************************************************************************)
C18_PreOrderOutput ==
    Returned =>
        /\ Len(emitted) > 0
        /\ emitted[1] = <<>>
        /\ rectangles[1].name = root.name
        /\ \A i, j \in 1..Len(emitted) :
               /\ emitted[i] \in Ancestors(emitted[j]) => i < j
               /\ i < j => PreOrderBefore(emitted[i], emitted[j])

\* a list was returned with the rectangles of a nested container and its
\* child, then that of the container's later sibling
C18_Witness ==
    /\ Returned
    /\ \E i \in 1..(Len(emitted) - 2) :
           /\ Len(emitted[i]) = 1
           /\ emitted[i + 1] = Append(emitted[i], 1)
           /\ Len(emitted[Len(emitted)]) = 1
           /\ emitted[Len(emitted)][1] = emitted[i][1] + 1

(***************************************************************************)
(* C19, as claimed: in a Horizontal container a child without width spec   *)
(* that has children, none of them flexible in width, gets exactly its     *)
(* minimum width (the sum of its children's widths, gaps and border when   *)
(* it is Horizontal, the largest of them and the border when Vertical)     *)
(* and takes no share of the remainder.  Stated for the children whose     *)
(* own children all have a width in pixels.                                *)
(***************************************************************************)
\* a child without width spec whose children all have a width in pixels
C19_FixedContent(c) ==
    /\ NodeAt(root, c).size[1] = None
    /\ NodeAt(root, c).children # <<>>
    /\ \A g \in ChildIds(c) : IsPixelSpec(NodeAt(root, g).size[1])

C19_MinimumWidth(c) ==
    LET node == NodeAt(root, c)
        widths == [i \in 1..Len(node.children) |-> int_of_str(node.children[i].size[1][1])]
    IN  IF node.layout = "horiz"
        THEN SumSeq(widths) + node.gap * (Len(node.children) - 1) + 2 * node.border
        ELSE MaxSeq(widths) + 2 * node.border

\* the placed Horizontal containers
C19_HorizontalPlaced ==
    { p \in NodeIds(root) : ChildrenEmitted(p) /\ NodeAt(root, p).layout = "horiz" }

C19_MinimumWidthAllotted ==
    Returned =>
        \A p \in C19_HorizontalPlaced :
            \A c \in ChildIds(p) :
                C19_FixedContent(c) => RectOf(c).width = C19_MinimumWidth(c)

(***************************************************************************)
(* C19, as amended: in a Horizontal container every child without width    *)
(* spec is flexible, whatever children it has: all of them get the same    *)
(* width, and that width is the floor of the remainder (content width      *)
(* less the gaps and the widths of the children with a width spec)         *)
(* divided by their number.  No minimum width is estimated.                *)
(***************************************************************************)
C19_Unspecified(p) == { c \in ChildIds(p) : NodeAt(root, c).size[1] = None }

C19_EveryUnspecifiedWidthShares ==
    Returned =>
        \A p \in C19_HorizontalPlaced :
            LET node == NodeAt(root, p)
                n == Len(node.children)
                k == Cardinality(C19_Unspecified(p))
                specified == SumSeq([i \in 1..n |->
                                 IF Append(p, i) \in C19_Unspecified(p) THEN 0
                                 ELSE RectOf(Append(p, i)).width])
                remainder == ContentWidth(p) - node.gap * (n - 1) - specified
            IN  \A c \in C19_Unspecified(p) :
                    /\ \A d \in C19_Unspecified(p) : RectOf(c).width = RectOf(d).width
                    /\ k * RectOf(c).width <= remainder
                    /\ remainder < k * RectOf(c).width + k

\* a Horizontal container was placed whose child of fixed content got the
\* same share as its leaf sibling, not its minimum width
C19_Witness ==
    /\ Returned
    /\ \E p \in C19_HorizontalPlaced :
           \E c, d \in C19_Unspecified(p) :
               /\ C19_FixedContent(c)
               /\ NodeAt(root, d).children = <<>>
               /\ RectOf(c).width = RectOf(d).width
               /\ RectOf(c).width # C19_MinimumWidth(c)

(***************************************************************************)
(* C20, as claimed: a Horizontal node without height spec requires a       *)
(* minimum height unless every one of its children is flexible in height,  *)
(* so in a Vertical container a Horizontal child with one child of fixed   *)
(* height and one flexible child is allotted its estimated minimum height. *)
(***************************************************************************)
\* a child of a container is flexible in height: it has no height spec and
\* is a leaf, or has a child without height spec (the children of the
\* children of the model's containers are leaves), or its estimate is 0
C20_Flexible(d) ==
    /\ NodeAt(root, d).size[2] = None
    /\ \/ NodeAt(root, d).children = <<>>
       \/ \E g \in ChildIds(d) : NodeAt(root, g).size[2] = None
       \/ _calculate_min_height(NodeAt(root, d)) <= 0

\* the Horizontal children without height spec of a placed Vertical
\* container, as pairs of container and child
C20_HorizontalInVertical ==
    { pc \in NodeIds(root) \X NodeIds(root) :
          /\ ChildrenEmitted(pc[1])
          /\ NodeAt(root, pc[1]).layout = "vert"
          /\ pc[2] \in ChildIds(pc[1])
          /\ NodeAt(root, pc[2]).layout = "horiz"
          /\ NodeAt(root, pc[2]).size[2] = None
          /\ NodeAt(root, pc[2]).children # <<>>
          /\ \A g \in ChildIds(pc[2]) : NodeAt(root, g).children = <<>> }

\* the share of the flexible children of a placed Vertical container
C20_Share(p) ==
    LET node == NodeAt(root, p)
        n == Len(node.children)
        k == Cardinality({ d \in ChildIds(p) : C20_Flexible(d) })
        allotted == SumSeq([i \in 1..n |-> IF C20_Flexible(Append(p, i)) THEN 0
                                           ELSE RectOf(Append(p, i)).height])
        remaining == ContentHeight(p) - node.gap * (n - 1) - allotted
    IN  IF remaining > 0 THEN remaining \div k ELSE 0

C20_HorizontalMinimumUnlessAllFlexible ==
    Returned =>
        \A pc \in C20_HorizontalInVertical :
            (\E g \in ChildIds(pc[2]) : NodeAt(root, g).size[2] # None) =>
                RectOf(pc[2]).height = _calculate_min_height(NodeAt(root, pc[2]))

(***************************************************************************)
(* C20, as amended: a Horizontal node without height spec requires a       *)
(* minimum height only when none of its children is flexible in height;    *)
(* one flexible child makes it flexible, as for a Vertical node.  In a     *)
(* Vertical container such a child takes the flexible share when it has a  *)
(* flexible child and its estimated minimum height when it has none.       *)
(***************************************************************************)
C20_HorizontalFlexibleByOneChild ==
    Returned =>
        \A pc \in C20_HorizontalInVertical :
            /\ _requires_minimum_height(NodeAt(root, pc[2]))
                   <=> \A g \in ChildIds(pc[2]) : NodeAt(root, g).size[2] # None
            /\ RectOf(pc[2]).height =
                   IF C20_Flexible(pc[2]) THEN C20_Share(pc[1])
                   ELSE _calculate_min_height(NodeAt(root, pc[2]))

\* a Vertical container was placed whose Horizontal child, with a child of
\* fixed height and a flexible one, got a share that is not its minimum
C20_Witness ==
    /\ Returned
    /\ \E pc \in C20_HorizontalInVertical :
           /\ \E g, h \in ChildIds(pc[2]) :
                  /\ IsPixelSpec(NodeAt(root, g).size[2])
                  /\ NodeAt(root, h).size[2] = None
           /\ RectOf(pc[2]).height = C20_Share(pc[1])
           /\ RectOf(pc[2]).height # _calculate_min_height(NodeAt(root, pc[2]))

(***************************************************************************)
(* C21: a node with children requires a minimum height if and only if      *)
(* none of its children is truly flexible in height; a child is truly      *)
(* flexible iff it has no height spec and does not itself require a        *)
(* minimum, so a leaf without height spec is.  A Vertical node with a      *)
(* truly flexible child, placed in a Vertical container, takes the share   *)
(* of the leftover height, not its estimated minimum.                      *)
(***************************************************************************)
RECURSIVE C21_RequiresMinimum(_)

C21_TrulyFlexible(id) ==
    NodeAt(root, id).size[2] = None /\ ~C21_RequiresMinimum(id)

C21_RequiresMinimum(id) ==
    /\ NodeAt(root, id).children # <<>>
    /\ \A c \in ChildIds(id) : ~C21_TrulyFlexible(c)

\* the children of a Vertical container that share its leftover height:
\* the truly flexible ones and those whose estimated minimum is not above 0
SharingChildren(p) ==
    { d \in ChildIds(p) :
          /\ NodeAt(root, d).size[2] = None
          /\ \/ C21_TrulyFlexible(d)
             \/ _calculate_min_height(NodeAt(root, d)) <= 0 }

\* the leftover height of a placed Vertical container
LeftoverHeight(p) ==
    LET node == NodeAt(root, p)
        n == Len(node.children)
        allotted == SumSeq([i \in 1..n |-> IF Append(p, i) \in SharingChildren(p) THEN 0
                                           ELSE RectOf(Append(p, i)).height])
    IN  ContentHeight(p) - node.gap * (n - 1) - allotted

\* the share of it each sharing child gets
HeightShare(p) ==
    IF LeftoverHeight(p) > 0
    THEN LeftoverHeight(p) \div Cardinality(SharingChildren(p))
    ELSE 0

\* the placed Vertical containers
VerticalPlaced ==
    { p \in NodeIds(root) : ChildrenEmitted(p) /\ NodeAt(root, p).layout = "vert" }

C21_RequiresMinimumIffNoFlexibleChild ==
    Returned =>
        /\ \A id \in NodeIds(root) :
               _requires_minimum_height(NodeAt(root, id)) <=> C21_RequiresMinimum(id)
        /\ \A p \in VerticalPlaced :
               \A c \in ChildIds(p) :
                   ( /\ NodeAt(root, c).layout = "vert"
                     /\ NodeAt(root, c).size[2] = None
                     /\ \E g \in ChildIds(c) : C21_TrulyFlexible(g) ) =>
                       RectOf(c).height = HeightShare(p)

\* a Vertical container was placed whose Vertical child holds a container
\* that requires a minimum and a leaf without height, and took the share,
\* which is not its estimated minimum
C21_Witness ==
    /\ Returned
    /\ \E p \in VerticalPlaced :
           \E c \in ChildIds(p) :
               /\ NodeAt(root, c).layout = "vert"
               /\ NodeAt(root, c).size[2] = None
               /\ \E g, h \in ChildIds(c) :
                      /\ C21_TrulyFlexible(g)
                      /\ NodeAt(root, h).size[2] = None
                      /\ C21_RequiresMinimum(h)
               /\ RectOf(c).height = HeightShare(p)
               /\ RectOf(c).height # _calculate_min_height(NodeAt(root, c))

(***************************************************************************)
(* C22: in a Vertical container every child without height spec that       *)
(* requires a minimum height gets exactly its estimated minimum, also      *)
(* when that is 0, and is not counted among the flexible children; every   *)
(* other child without height spec gets floor(remaining / flex_count),     *)
(* remaining being the content height less the gaps, the explicit heights  *)
(* and the allotted minimums.  The code breaks it: a child that requires   *)
(* a minimum of 0 is counted as flexible and takes a share.                *)
(***************************************************************************)
C22_Requiring(p) ==
    { c \in ChildIds(p) : NodeAt(root, c).size[2] = None /\ C21_RequiresMinimum(c) }

C22_Flexible(p) ==
    { c \in ChildIds(p) : NodeAt(root, c).size[2] = None /\ ~C21_RequiresMinimum(c) }

C22_Remaining(p) ==
    LET node == NodeAt(root, p)
        n == Len(node.children)
        taken == SumSeq([i \in 1..n |->
                     IF Append(p, i) \in C22_Requiring(p)
                     THEN _calculate_min_height(node.children[i])
                     ELSE IF Append(p, i) \in C22_Flexible(p) THEN 0
                     ELSE _parse_dimension(node.children[i].size[2], ContentHeight(p))[1]])
    IN  ContentHeight(p) - node.gap * (n - 1) - taken

C22_MinimumAllottedEvenZero ==
    Returned =>
        \A p \in VerticalPlaced :
            /\ \A c \in C22_Requiring(p) :
                   RectOf(c).height = _calculate_min_height(NodeAt(root, c))
            /\ \A c \in C22_Flexible(p) :
                   RectOf(c).height = C22_Remaining(p) \div Cardinality(C22_Flexible(p))

(***************************************************************************)
(* C23: in a Horizontal container the height of a child is the content     *)
(* height when the child has no height spec, and the height spec resolved  *)
(* against the content height when it has one, also when that comes to 0;  *)
(* the same for the widths of the children of a Vertical container.  The   *)
(* code breaks it: a spec that comes to 0 gives the whole content size.    *)
(***************************************************************************)
\* the size of an emitted child across the axis of its parent, the spec
\* of that size, and the content size of the parent it is resolved against
CrossSize(c) ==
    IF NodeAt(root, ParentId(c)).layout = "vert" THEN RectOf(c).width
    ELSE RectOf(c).height

CrossSpec(c) ==
    IF NodeAt(root, ParentId(c)).layout = "vert" THEN NodeAt(root, c).size[1]
    ELSE NodeAt(root, c).size[2]

CrossContentSize(p) ==
    IF NodeAt(root, p).layout = "vert" THEN ContentWidth(p) ELSE ContentHeight(p)

C23_CrossAxisSize ==
    Returned =>
        \A p \in NodeIds(root) :
            ChildrenEmitted(p) =>
                \A c \in ChildIds(p) :
                    CrossSize(c) =
                        IF CrossSpec(c) = None THEN CrossContentSize(p)
                        ELSE _parse_dimension(CrossSpec(c), CrossContentSize(p))[1]

(***************************************************************************)
(* C24, as claimed: the estimated minimum height of a node without         *)
(* children and without height spec is 0, whatever its border and gap.     *)
(***************************************************************************)
\* the nodes without children and without height spec
C24_Leaves ==
    { id \in NodeIds(root) :
          NodeAt(root, id).children = <<>> /\ NodeAt(root, id).size[2] = None }

C24_LeafMinimumZero ==
    Returned =>
        \A id \in C24_Leaves : _calculate_min_height(NodeAt(root, id)) = 0

(***************************************************************************)
(* C24, as amended: the estimated minimum height of a node without         *)
(* children is twice its border, whatever its gap (0 only without          *)
(* border), and the estimate of the parent of such a node without height   *)
(* spec is at least that plus twice the parent's own border.               *)
(***************************************************************************)
C24_LeafMinimumIsBorder ==
    Returned =>
        \A id \in NodeIds(root) :
            NodeAt(root, id).children = <<>> =>
                /\ _calculate_min_height(NodeAt(root, id)) = 2 * NodeAt(root, id).border
                /\ (id \in C24_Leaves /\ id # <<>>) =>
                       _calculate_min_height(NodeAt(root, ParentId(id)))
                           >= 2 * NodeAt(root, id).border
                                  + 2 * NodeAt(root, ParentId(id)).border

\* a Vertical container was placed that holds a node without children and
\* without height spec, with a border and a gap, and a node with a height
C24_Witness ==
    /\ Returned
    /\ \E p \in VerticalPlaced :
           \E c, d \in ChildIds(p) :
               /\ c \in C24_Leaves
               /\ NodeAt(root, c).border > 0
               /\ NodeAt(root, c).gap > 0
               /\ NodeAt(root, d).size[2] # None
               /\ _calculate_min_height(NodeAt(root, p)) > RectOf(d).height

(***************************************************************************)
(* C25: the estimated minimum height of a node with children is, for a     *)
(* Vertical node, the sum over its children of the child's explicit        *)
(* height, or else the child's own estimated minimum, plus gap * (n - 1)   *)
(* plus twice the border; for a Horizontal node the largest of those       *)
(* values plus twice the border.  A child that the container allots its    *)
(* minimum gets that height.  (What a percentage height is resolved        *)
(* against in the estimate is the matter of C26; here it counts as the     *)
(* estimator resolves it.)                                                 *)
(***************************************************************************)
\* what one child counts for in the estimate of its parent
C25_ChildValue(c) ==
    IF NodeAt(root, c).size[2] # None
    THEN IF IsPixelSpec(NodeAt(root, c).size[2])
         THEN int_of_str(NodeAt(root, c).size[2][1])
         ELSE (MinHeightReference * PercentOf(NodeAt(root, c).size[2])) \div 100
    ELSE _calculate_min_height(NodeAt(root, c))

\* the reference formula for a node with children
C25_Reference(id) ==
    LET node == NodeAt(root, id)
        n == Len(node.children)
        values == [i \in 1..n |-> C25_ChildValue(Append(id, i))]
    IN  IF node.layout = "vert"
        THEN SumSeq(values) + node.gap * (n - 1) + 2 * node.border
        ELSE MaxSeq(values) + 2 * node.border

\* the children of a placed Vertical container that are allotted their
\* estimated minimum, as pairs of container and child
AllottedMinimum ==
    { pc \in NodeIds(root) \X NodeIds(root) :
          /\ pc[1] \in VerticalPlaced
          /\ pc[2] \in ChildIds(pc[1])
          /\ NodeAt(root, pc[2]).size[2] = None
          /\ C21_RequiresMinimum(pc[2])
          /\ _calculate_min_height(NodeAt(root, pc[2])) > 0 }

C25_MinimumHeightFormula ==
    Returned =>
        /\ \A id \in NodeIds(root) :
               ( /\ NodeAt(root, id).children # <<>>
                 /\ ~_calculate_min_height_raises(NodeAt(root, id)) ) =>
                   _calculate_min_height(NodeAt(root, id)) = C25_Reference(id)
        /\ \A pc \in AllottedMinimum : RectOf(pc[2]).height = C25_Reference(pc[2])

\* a Vertical container was placed that allots its minimum to a Vertical
\* child with a gap, a border, a child with a height in pixels and a child
\* without height that has an estimated minimum of its own
C25_Witness ==
    /\ Returned
    /\ \E pc \in AllottedMinimum :
           /\ NodeAt(root, pc[2]).layout = "vert"
           /\ NodeAt(root, pc[2]).gap > 0
           /\ NodeAt(root, pc[2]).border > 0
           /\ \E g, h \in ChildIds(pc[2]) :
                  /\ IsPixelSpec(NodeAt(root, g).size[2])
                  /\ NodeAt(root, h).size[2] = None
                  /\ _calculate_min_height(NodeAt(root, h)) > 0

(***************************************************************************)
(* C26: a percentage height is resolved against the content height of the  *)
(* node's immediate container both when the child is placed and when it    *)
(* is counted in the estimated minimum of a parent without height spec,    *)
(* so the minimum height allotted to such a parent is the sum (Vertical)   *)
(* or the largest (Horizontal) of the heights its children are placed      *)
(* with, plus gaps and border.  The code breaks it: the estimate resolves  *)
(* the percentage against 1000, whatever the container.                    *)
(***************************************************************************)
\* the allotted children all of whose own children have a percentage height
C26_PercentContent ==
    { pc \in AllottedMinimum :
          /\ ChildrenEmitted(pc[2])
          /\ \A g \in ChildIds(pc[2]) : IsPercentSpec(NodeAt(root, g).size[2]) }

C26_PercentageAgainstContainer ==
    Returned =>
        \A pc \in C26_PercentContent :
            LET node == NodeAt(root, pc[2])
                n == Len(node.children)
                placed == [i \in 1..n |-> RectOf(Append(pc[2], i)).height]
            IN  /\ \A i \in 1..n :
                       placed[i] = (ContentHeight(pc[2])
                                        * PercentOf(node.children[i].size[2])) \div 100
                /\ RectOf(pc[2]).height =
                       IF node.layout = "vert"
                       THEN SumSeq(placed) + node.gap * (n - 1) + 2 * node.border
                       ELSE MaxSeq(placed) + 2 * node.border

(***************************************************************************)
(* C27: when k >= 1 flexible children of a container share a remainder     *)
(* R >= 0, each of them gets floor(R / k) and the R mod k pixels left      *)
(* over go to no child: the sizes of the children along the principal      *)
(* axis plus the gaps sum to the content extent less R mod k.              *)
(***************************************************************************)
\* the flexible children of a placed container
FlexibleChildren(p) ==
    IF NodeAt(root, p).layout = "vert" THEN SharingChildren(p)
    ELSE { c \in ChildIds(p) : NodeAt(root, c).size[1] = None }

\* the content extent of a placed container along its axis
ContentExtent(p) ==
    IF NodeAt(root, p).layout = "vert" THEN ContentHeight(p) ELSE ContentWidth(p)

\* the sizes of all its children, and of those that are not flexible
PrincipalSizes(p) ==
    [i \in 1..Len(NodeAt(root, p).children) |-> PrincipalSize(Append(p, i))]

FixedSizes(p) ==
    [i \in 1..Len(NodeAt(root, p).children) |->
         IF Append(p, i) \in FlexibleChildren(p) THEN 0 ELSE PrincipalSize(Append(p, i))]

\* the remainder its flexible children share
Remainder(p) ==
    ContentExtent(p) - NodeAt(root, p).gap * (Len(NodeAt(root, p).children) - 1)
        - SumSeq(FixedSizes(p))

C27_RemainderDropped ==
    Returned =>
        \A p \in NodeIds(root) :
            ( /\ ChildrenEmitted(p)
              /\ FlexibleChildren(p) # {}
              /\ Remainder(p) >= 0 ) =>
                LET k == Cardinality(FlexibleChildren(p))
                    n == Len(NodeAt(root, p).children)
                IN  /\ \A c \in FlexibleChildren(p) :
                           PrincipalSize(c) = Remainder(p) \div k
                    /\ SumSeq(PrincipalSizes(p)) + NodeAt(root, p).gap * (n - 1)
                           = ContentExtent(p) - (Remainder(p) % k)
                    /\ SumSeq(PrincipalSizes(p)) + NodeAt(root, p).gap * (n - 1)
                           <= ContentExtent(p)

\* a Vertical and a Horizontal container were placed, each with two
\* flexible children and a remainder that two does not divide
C27_Witness ==
    /\ Returned
    /\ \E p, q \in NodeIds(root) :
           /\ NodeAt(root, p).layout = "vert"
           /\ NodeAt(root, q).layout = "horiz"
           /\ \A c \in {p, q} :
                  /\ ChildrenEmitted(c)
                  /\ Cardinality(FlexibleChildren(c)) = 2
                  /\ Remainder(c) > 0
                  /\ Remainder(c) % 2 = 1

(***************************************************************************)
(* C28: in a Vertical container whose explicit heights, allotted minimum   *)
(* heights and gaps come to the content height or more, every flexible     *)
(* child gets the height 0: the share is clamped.  The Horizontal          *)
(* container has no such clamp: when the widths and gaps come to more      *)
(* than the content width, a flexible child gets the floor of the          *)
(* negative remainder divided by the number of flexible children.          *)
(***************************************************************************)
\* the placed containers with a flexible child and nothing left to share
C28_Overfull(layout_direction) ==
    { p \in NodeIds(root) :
          /\ ChildrenEmitted(p)
          /\ NodeAt(root, p).layout = layout_direction
          /\ FlexibleChildren(p) # {}
          /\ Remainder(p) <= 0 }

C28_VerticalShareClamped ==
    Returned =>
        /\ \A p \in C28_Overfull("vert") :
               \A c \in FlexibleChildren(p) : RectOf(c).height = 0
        /\ \A p \in C28_Overfull("horiz") :
               \A c \in FlexibleChildren(p) :
                   RectOf(c).width = Remainder(p) \div Cardinality(FlexibleChildren(p))

\* a Vertical container was placed whose children with a height take more
\* than its content height and whose flexible child is 0 high, and a
\* Horizontal one whose flexible child has a negative width
C28_Witness ==
    /\ Returned
    /\ \E p \in C28_Overfull("vert") :
           /\ Remainder(p) < 0
           /\ \E c \in FlexibleChildren(p) : RectOf(c).height = 0
    /\ \E q \in C28_Overfull("horiz") :
           \E c \in FlexibleChildren(q) : RectOf(c).width < 0

(***************************************************************************)
(* C29: whether a node requires a minimum height does not depend on the    *)
(* layout direction: switching any node of a tree between Horizontal and   *)
(* Vertical changes the classification neither of that node nor of any of  *)
(* its ancestors.                                                          *)
(***************************************************************************)
RECURSIVE C29_Switched(_, _)

\* the tree with the direction of the node of identity id switched
C29_Switched(tree, id) ==
    [tree EXCEPT
        !.layout = IF tree.id # id THEN @
                   ELSE IF @ = "vert" THEN "horiz" ELSE "vert",
        !.children = [i \in 1..Len(tree.children) |-> C29_Switched(tree.children[i], id)]]

C29_ClassificationIgnoresDirection ==
    Returned =>
        \A id \in NodeIds(root) :
            \A a \in Ancestors(id) \cup {id} :
                _requires_minimum_height(NodeAt(C29_Switched(root, id), a))
                    <=> _requires_minimum_height(NodeAt(root, a))

\* a Vertical container was placed that allots the minimum to a child which
\* requires it because its own child of the other direction requires one
C29_Witness ==
    /\ Returned
    /\ \E pc \in AllottedMinimum :
           \E g \in ChildIds(pc[2]) :
               /\ NodeAt(root, g).size[2] = None
               /\ _requires_minimum_height(NodeAt(root, g))
               /\ NodeAt(root, g).layout # NodeAt(root, pc[2]).layout
               /\ _requires_minimum_height(NodeAt(C29_Switched(root, g), pc[2]))

(***************************************************************************)
(* C30: estimator and resolver agree.  When a Vertical container allots a  *)
(* child N without height spec its estimated minimum height, and every     *)
(* height spec among the children of N is a pixel value, every emitted     *)
(* child of N lies inside the content area of N on the vertical axis, and  *)
(* for a Vertical N the heights of its children plus the gaps sum to       *)
(* exactly the content height of N.                                        *)
(***************************************************************************)
\* the allotted children N whose children were placed and have no height
\* spec or one in pixels
C30_PixelContent ==
    { pc \in AllottedMinimum :
          /\ ChildrenEmitted(pc[2])
          /\ \A g \in ChildIds(pc[2]) :
                 NodeAt(root, g).size[2] = None \/ IsPixelSpec(NodeAt(root, g).size[2]) }

C30_EstimatorMatchesResolver ==
    Returned =>
        \A pc \in C30_PixelContent :
            LET N == pc[2]
                n == Len(NodeAt(root, N).children)
            IN  /\ \A g \in ChildIds(N) :
                       /\ ContentY(N) <= RectOf(g).y
                       /\ RectOf(g).y + RectOf(g).height <= ContentY(N) + ContentHeight(N)
                /\ NodeAt(root, N).layout = "vert" =>
                       SumSeq([i \in 1..n |-> RectOf(Append(N, i)).height])
                           + NodeAt(root, N).gap * (n - 1) = ContentHeight(N)

\* a Vertical container allotted the minimum to a Vertical child with a
\* gap that holds a child with a height in pixels and a container without
\* height spec that requires a minimum of its own
C30_Witness ==
    /\ Returned
    /\ \E pc \in C30_PixelContent :
           /\ NodeAt(root, pc[2]).layout = "vert"
           /\ NodeAt(root, pc[2]).gap > 0
           /\ \E g, h \in ChildIds(pc[2]) :
                  /\ IsPixelSpec(NodeAt(root, g).size[2])
                  /\ NodeAt(root, h).size[2] = None
                  /\ NodeAt(root, h).children # <<>>
                  /\ RectOf(h).height > 0

====
